---- MODULE Spec2Model ----
(***************************************************************************)
(* Model of the sticky-notes backend (src/backend).                        *)
(*                                                                         *)
(*   Spec       utils.extract_json_from_text and                           *)
(*              llm_service.generate_notes_and_relationships applied to a  *)
(*              text: every short string over Alphabet, valid JSON wrapped *)
(*              in commentary, and truncated JSON.                         *)
(*   StoreSpec  the request handlers of main.py over the graph store of    *)
(*              neo4j_service.py.                                          *)
(*                                                                         *)
(* A text is a sequence of one-character strings.  json.loads is modelled  *)
(* for the part of the JSON grammar the drawn texts can contain: objects,  *)
(* arrays, strings without escapes, integers, true/false/null, whitespace. *)
(***************************************************************************)
EXTENDS Integers, Sequences, FiniteSets, TLC

VARIABLES
    text,       \* the text handed to extract_json_from_text / returned by call_gemini
    origin,     \* how the text was built (history: prefix, value, suffix)
    pc,         \* position: "input", "extracted", "generated"; store: "idle", "notes", ...
    result,     \* outcome of extract_json_from_text(text)
    graph,      \* outcome of generate_notes_and_relationships
    notes,      \* store: the Note nodes
    rels,       \* store: the relationships between Note nodes
    req,        \* the request being handled: its payload and the handler's loop index
    log,        \* history: the store writes the /generate request has attempted
    response    \* the answer of the last finished request

vars == <<text, origin, pc, result, graph, notes, rels, req, log, response>>
textVars == <<text, origin, result, graph>>
storeVars == <<notes, rels, req, log, response>>

----------------------------------------------------------------------------
(* Bounds *)

MaxLen == 4        \* longest text drawn exhaustively over Alphabet
MaxWrites == 3     \* most notes plus relationships in one /generate payload

----------------------------------------------------------------------------
(* JSON values: the tagged union json.loads produces *)

\* every value carries all four payload fields, so that any two values compare
JVal(t, n, s, a, m) == [t |-> t, n |-> n, s |-> s, a |-> a, m |-> m]
Num(n) == JVal("num", n, <<>>, <<>>, {})
Str(s) == JVal("str", 0, s, <<>>, {})
Arr(a) == JVal("arr", 0, <<>>, a, {})
Obj(m) == JVal("obj", 0, <<>>, <<>>, m)   \* m: a set of <<key, value>>, one pair per key
JNull == JVal("null", 0, <<>>, <<>>, {})
JTrue == JVal("bool", 1, <<>>, <<>>, {})
JFalse == JVal("bool", 0, <<>>, <<>>, {})
NoVal == JVal("none", 0, <<>>, <<>>, {})

Keys(m) == {p[1] : p \in m}

\* dict item assignment: the last value given to a key wins
Put(m, k, val) == {p \in m : p[1] # k} \cup {<<k, val>>}

----------------------------------------------------------------------------
(* json.loads *)

WS == {" ", "\t", "\n", "\r"}
Digits == <<"0", "1", "2", "3", "4", "5", "6", "7", "8", "9">>
DigitSet == {Digits[i] : i \in 1..10}
DigitVal(c) == (CHOOSE i \in 1..10 : Digits[i] = c) - 1

At(s, i) == IF i >= 1 /\ i <= Len(s) THEN s[i] ELSE "EOF"

RECURSIVE SkipWs(_, _)
SkipWs(s, i) == IF At(s, i) \in WS THEN SkipWs(s, i + 1) ELSE i

PFail == [ok |-> FALSE, val |-> NoVal, pos |-> 0]
POk(val, pos) == [ok |-> TRUE, val |-> val, pos |-> pos]

\* scanstring, strict: from the character after the opening quote to the closing
\* quote; a control character inside the string is an error
RECURSIVE ScanString(_, _, _)
ScanString(s, i, acc) ==
    LET c == At(s, i) IN
    IF c = "\"" THEN POk(Str(acc), i + 1)
    ELSE IF c = "EOF" \/ c \in {"\t", "\n", "\r"} THEN PFail
    ELSE ScanString(s, i + 1, Append(acc, c))

\* -?(0|[1-9][0-9]*)
RECURSIVE ScanDigits(_, _, _)
ScanDigits(s, i, n) ==
    IF At(s, i) \in DigitSet THEN ScanDigits(s, i + 1, 10 * n + DigitVal(At(s, i)))
    ELSE POk(Num(n), i)

ScanInt(s, i) ==
    IF At(s, i) = "0" THEN POk(Num(0), i + 1)
    ELSE IF At(s, i) \in DigitSet THEN ScanDigits(s, i, 0)
    ELSE PFail

ScanNumber(s, i) ==
    IF At(s, i) = "-"
    THEN LET r == ScanInt(s, i + 1) IN
         IF r.ok THEN POk(Num(0 - r.val.n), r.pos) ELSE PFail
    ELSE ScanInt(s, i)

Word(s, i, n) == IF i + n - 1 <= Len(s) THEN SubSeq(s, i, i + n - 1) ELSE <<>>

RECURSIVE ScanOnce(_, _), ScanElems(_, _, _), ScanMembers(_, _, _)

\* JSONArray after the first value position: value, then "," or "]"
ScanElems(s, i, acc) ==
    LET r == ScanOnce(s, i) IN
    IF ~r.ok THEN PFail
    ELSE LET k == SkipWs(s, r.pos) IN
         IF At(s, k) = "]" THEN POk(Arr(Append(acc, r.val)), k + 1)
         ELSE IF At(s, k) = "," THEN ScanElems(s, SkipWs(s, k + 1), Append(acc, r.val))
         ELSE PFail

\* JSONObject at a key: "key" ws : ws value ws, then "," or "}"
ScanMembers(s, i, acc) ==
    IF At(s, i) # "\"" THEN PFail
    ELSE LET key == ScanString(s, i + 1, <<>>) IN
         IF ~key.ok THEN PFail
         ELSE LET c == SkipWs(s, key.pos) IN
              IF At(s, c) # ":" THEN PFail
              ELSE LET r == ScanOnce(s, SkipWs(s, c + 1)) IN
                   IF ~r.ok THEN PFail
                   ELSE LET k == SkipWs(s, r.pos)
                            m == Put(acc, key.val.s, r.val)
                        IN  IF At(s, k) = "}" THEN POk(Obj(m), k + 1)
                            ELSE IF At(s, k) = "," THEN ScanMembers(s, SkipWs(s, k + 1), m)
                            ELSE PFail

\* scan_once: one JSON value starting exactly at i
ScanOnce(s, i) ==
    LET c == At(s, i) IN
    IF c = "\"" THEN ScanString(s, i + 1, <<>>)
    ELSE IF c = "{"
         THEN LET j == SkipWs(s, i + 1) IN
              IF At(s, j) = "}" THEN POk(Obj({}), j + 1) ELSE ScanMembers(s, j, {})
    ELSE IF c = "["
         THEN LET j == SkipWs(s, i + 1) IN
              IF At(s, j) = "]" THEN POk(Arr(<<>>), j + 1) ELSE ScanElems(s, j, <<>>)
    ELSE IF c = "n" /\ Word(s, i, 4) = <<"n", "u", "l", "l">> THEN POk(JNull, i + 4)
    ELSE IF c = "t" /\ Word(s, i, 4) = <<"t", "r", "u", "e">> THEN POk(JTrue, i + 4)
    ELSE IF c = "f" /\ Word(s, i, 5) = <<"f", "a", "l", "s", "e">> THEN POk(JFalse, i + 5)
    ELSE ScanNumber(s, i)

\* json.loads(s): whitespace, one value, whitespace, end of text ("Extra data" otherwise)
json_loads(s) ==
    LET r == ScanOnce(s, SkipWs(s, 1)) IN
    IF r.ok /\ SkipWs(s, r.pos) = Len(s) + 1 THEN r ELSE PFail

----------------------------------------------------------------------------
(* json.dumps with the default separators ", " and ": " *)

RECURSIVE IntText(_)
IntText(n) ==
    IF n < 0 THEN <<"-">> \o IntText(0 - n)
    ELSE IF n < 10 THEN <<Digits[n + 1]>>
    ELSE IntText(n \div 10) \o <<Digits[(n % 10) + 1]>>

RECURSIVE json_dumps(_), DumpElems(_), DumpMembers(_)
DumpElems(s) ==
    IF s = <<>> THEN <<>>
    ELSE IF Len(s) = 1 THEN json_dumps(s[1])
    ELSE json_dumps(s[1]) \o <<",", " ">> \o DumpElems(Tail(s))

DumpMembers(m) ==
    IF m = {} THEN <<>>
    ELSE LET p == CHOOSE q \in m : TRUE
             one == <<"\"">> \o p[1] \o <<"\"", ":", " ">> \o json_dumps(p[2])
         IN  IF m = {p} THEN one ELSE one \o <<",", " ">> \o DumpMembers(m \ {p})

json_dumps(val) ==
    IF val.t = "num" THEN IntText(val.n)
    ELSE IF val.t = "str" THEN <<"\"">> \o val.s \o <<"\"">>
    ELSE IF val.t = "null" THEN <<"n", "u", "l", "l">>
    ELSE IF val.t = "bool"
         THEN (IF val.n = 1 THEN <<"t", "r", "u", "e">> ELSE <<"f", "a", "l", "s", "e">>)
    ELSE IF val.t = "arr" THEN <<"[">> \o DumpElems(val.a) \o <<"]">>
    ELSE <<"{">> \o DumpMembers(val.m) \o <<"}">>

----------------------------------------------------------------------------
(* utils.extract_json_from_text *)

\* str.strip()
RECURSIVE LStrip(_), RStrip(_)
LStrip(s) == IF s # <<>> /\ Head(s) \in WS THEN LStrip(Tail(s)) ELSE s
RStrip(s) == IF s # <<>> /\ s[Len(s)] \in WS THEN RStrip(SubSeq(s, 1, Len(s) - 1)) ELSE s
strip(s) == RStrip(LStrip(s))

StartCharsBraceOnly == {"{"}

\* the characters that start a JSON block
StartChars == {"{", "["}

\* index of the first "{" or "[" at or after i (1-based), 0 for None
RECURSIVE FindStartFrom(_, _)
FindStartFrom(s, i) ==
    IF i > Len(s) THEN 0
    ELSE IF s[i] \in StartChars THEN i
    ELSE FindStartFrom(s, i + 1)

FindStart(s) == FindStartFrom(s, 1)

FirstEndOffByOne(s) == Len(s) - 1

\* first end of range(len(text), start, -1), as the 1-based index of the last
\* character of the candidate text[start:end]
FirstEnd(s) == Len(s)

RECURSIVE ShrinkLoopByTwo(_, _, _, _)
ShrinkLoopByTwo(s, start, e, n) ==
    IF e < start THEN [found |-> FALSE, end |-> e, parsed |-> NoVal, tried |-> n]
    ELSE LET r == json_loads(SubSeq(s, start, e)) IN
         IF r.ok THEN [found |-> TRUE, end |-> e, parsed |-> r.val, tried |-> n + 1]
         ELSE ShrinkLoopByTwo(s, start, e - 2, n + 1)

\* for end in range(len(text), start, -1): try json.loads(text[start:end]).
\* e is the index of the candidate's last character, n the parses made so far.
RECURSIVE ShrinkLoop(_, _, _, _)
ShrinkLoop(s, start, e, n) ==
    IF e < start THEN [found |-> FALSE, end |-> e, parsed |-> NoVal, tried |-> n]
    ELSE LET r == json_loads(SubSeq(s, start, e)) IN
         IF r.ok THEN [found |-> TRUE, end |-> e, parsed |-> r.val, tried |-> n + 1]
         ELSE ShrinkLoop(s, start, e - 1, n + 1)

\* the end of the balanced {...} group that opens at i, 0 when it is never closed:
\* what \{(?:[^{}]|(?1))*\} matches at i
RECURSIVE MatchClose(_, _, _)
MatchClose(s, i, depth) ==
    IF i > Len(s) THEN 0
    ELSE IF s[i] = "{" THEN MatchClose(s, i + 1, depth + 1)
    ELSE IF s[i] = "}" THEN (IF depth = 1 THEN i ELSE MatchClose(s, i + 1, depth - 1))
    ELSE MatchClose(s, i + 1, depth)

\* findall over that pattern: the non-overlapping matches, left to right
RECURSIVE BalancedFrom(_, _)
BalancedFrom(s, i) ==
    IF i > Len(s) THEN <<>>
    ELSE IF s[i] = "{" /\ MatchClose(s, i, 0) # 0
         THEN <<SubSeq(s, i, MatchClose(s, i, 0))>> \o BalancedFrom(s, MatchClose(s, i, 0) + 1)
    ELSE BalancedFrom(s, i + 1)

\* Python's re module has no group recursion: compiling a pattern that contains
\* (?1) raises re.error ("unknown extension ?1")
ReCompiles == FALSE

NoJsonFound == [kind |-> "ValueError", msg |-> "No JSON object found in text.",
                value |-> NoVal, tried |-> 0]
CouldNotExtract(n) == [kind |-> "ValueError", msg |-> "Could not extract JSON from text.",
                       value |-> NoVal, tried |-> n]
ReError(n) == [kind |-> "re.error", msg |-> "unknown extension ?1",
               value |-> NoVal, tried |-> n]
Returned(val, n) == [kind |-> "return", msg |-> "", value |-> val, tried |-> n]

\* for jm in json_matches: try json.loads(jm)
RECURSIVE TryMatches(_, _)
TryMatches(ms, n) ==
    IF ms = <<>> THEN CouldNotExtract(n)
    ELSE LET r == json_loads(Head(ms)) IN
         IF r.ok THEN Returned(r.val, n + 1) ELSE TryMatches(Tail(ms), n + 1)

\* the fallback after the loop is exhausted
Fallback(s, n) ==
    IF ~ReCompiles THEN ReError(n) ELSE TryMatches(BalancedFrom(s, 1), n)

extract_json_from_text(raw) ==
    LET s == strip(raw)
        start == FindStart(s)
    IN  IF start = 0 THEN NoJsonFound
        ELSE LET l == ShrinkLoop(s, start, FirstEnd(s), 0) IN
             IF l.found THEN Returned(l.parsed, l.tried) ELSE Fallback(s, l.tried)

----------------------------------------------------------------------------
(* llm_service.generate_notes_and_relationships, given call_gemini's answer *)

K_notes == <<"n", "o", "t", "e", "s">>
K_relationships == <<"r", "e", "l", "a", "t", "i", "o", "n", "s", "h", "i", "p", "s">>

MissingKeysNotesOnly(parsed) == parsed.t # "obj" \/ K_notes \notin Keys(parsed.m)

\* not isinstance(parsed, dict) or "notes" not in parsed or "relationships" not in parsed
MissingKeys(parsed) ==
    parsed.t # "obj" \/ K_notes \notin Keys(parsed.m) \/ K_relationships \notin Keys(parsed.m)

generate_notes_and_relationships(raw) ==
    LET e == extract_json_from_text(raw) IN
    IF e.kind # "return"
    THEN [kind |-> "ValueError", msg |-> "LLM did not return parseable JSON.", value |-> NoVal]
    ELSE IF MissingKeys(e.value)
    THEN [kind |-> "ValueError", msg |-> "LLM JSON missing required keys", value |-> NoVal]
    ELSE [kind |-> "return", msg |-> "", value |-> e.value]

----------------------------------------------------------------------------
(* The texts *)

Alphabet == {"{", "}", "[", "]", "\"", ":", ",", "1", " ", "\n", "a"}
Strings == UNION {[1..k -> Alphabet] : k \in 0..MaxLen}

EmptyGraph == Obj({<<K_notes, Arr(<<>>)>>, <<K_relationships, Arr(<<>>)>>})
Scalars == {Num(1), Num(20), Str(<<"a">>), JNull, JTrue}
Containers ==
    { Arr(<<>>), Arr(<<Num(1)>>), Arr(<<Num(1), Arr(<<Str(<<"a", "{">>)>>), JFalse>>),
      Obj({}), Obj({<<(<<"a">>), Num(1)>>}),
      Obj({<<(<<"a">>), Obj({<<(<<"b">>), Num(1)>>})>>}),
      Obj({<<(<<"a">>), Num(1)>>, <<(<<"b">>), Arr(<<Num(1), Num(2), Num(3)>>)>>}),
      EmptyGraph,
      Obj({<<K_notes, Arr(<<Obj({<<(<<"i", "d">>), Str(<<"a">>)>>})>>)>>,
           <<K_relationships, JNull>>}),
      Obj({<<K_notes, Arr(<<>>)>>}),
      Obj({<<K_relationships, Arr(<<>>)>>}),
      Arr(<<EmptyGraph>>) }
Values == Scalars \cup Containers

\* commentary before the JSON (one of them with a bracket of its own)
Prefixes == { <<>>, <<"[", "x", "]", " ">>, <<"S", "u", "r", "e", "!", ":", "\n">>, <<"~", "~", "~", "j", "s", "o", "n", "\n">>,
              <<" ", "1", " ">> }
\* anything after it
Suffixes == { <<>>, <<"\n", "L", "e", "t", " ", "m", "e">>, <<"\n", "~", "~", "~">>, <<" ">>,
              <<"]">>, <<"}">>, <<"1">>, <<" ", "[", "1", "]">>, <<"{", "}">> }

NoOrigin == [kind |-> "raw", prefix |-> <<>>, value |-> NoVal, suffix |-> <<>>]
Idle == [kind |-> "none", msg |-> "", value |-> NoVal, tried |-> 0]
NoGraph == [kind |-> "none", msg |-> "", value |-> NoVal]

----------------------------------------------------------------------------
(* Python dicts are records; a key the dict lacks is a field the record lacks *)

Has(d, k) == k \in DOMAIN d
Get(d, k, default) == IF Has(d, k) THEN d[k] ELSE default
PyNone == "None"
\* a JSON value that is no mapping has no .get
IsDict(d) == ~Has(d, "nondict")

----------------------------------------------------------------------------
(* neo4j_service.Neo4jService over the store: notes is the set of Note nodes,
   rels the set of relationships [fromId, toId, type, label] *)

\* a note is a second node when one is created instead of merged
MergeCreate(ns, p) == ns \cup {p}

\* MERGE (n:Note {id: $id}) SET n.title = ..., n.timestamp = $timestamp
Merge(ns, p) == {n \in ns : n.id # p.id} \cup {p}

\* note.get("id") or str(uuid.uuid4())
NeedsUuid(note) == ~(Has(note, "id") /\ note.id # "")
NoteId(note, uuid) == IF NeedsUuid(note) THEN uuid ELSE note.id

\* note.get("timestamp") or datetime.utcnow().isoformat()
NeedsNow(note) == ~(Has(note, "timestamp") /\ note.timestamp # 0)
NoteTimestamp(note, now) == IF NeedsNow(note) THEN now ELSE note.timestamp

DefaultColor == "#ffeb3b"
DefaultX == 100
DefaultY == 100

NoteParams(note, uuid, now) ==
    [ id |-> NoteId(note, uuid),
      title |-> Get(note, "title", PyNone),
      content |-> Get(note, "content", PyNone),
      color |-> Get(note, "color", DefaultColor),
      x |-> Get(note, "x", DefaultX),
      y |-> Get(note, "y", DefaultY),
      timestamp |-> NoteTimestamp(note, now) ]

NoNode == [id |-> "", title |-> "", content |-> "", color |-> "", x |-> 0, y |-> 0,
           timestamp |-> 0]
NoEdge == [fromId |-> "", toId |-> "", type |-> <<>>, label |-> ""]

\* create_note: raises (AttributeError) on a note that is no dict
create_note(ns, note, uuid, now) ==
    IF ~IsDict(note) THEN [ok |-> FALSE, notes |-> ns, node |-> NoNode]
    ELSE LET p == NoteParams(note, uuid, now) IN
         [ok |-> TRUE, notes |-> Merge(ns, p), node |-> p]

Lower == <<"a", "b", "c", "d", "e", "f", "g", "h", "i", "j", "k", "l", "m",
           "n", "o", "p", "q", "r", "s", "t", "u", "v", "w", "x", "y", "z">>
Upper == <<"A", "B", "C", "D", "E", "F", "G", "H", "I", "J", "K", "L", "M",
           "N", "O", "P", "Q", "R", "S", "T", "U", "V", "W", "X", "Y", "Z">>
Letters == {Lower[i] : i \in 1..26} \cup {Upper[i] : i \in 1..26}

\* str.upper() and str.isalnum(), character by character
UpperChar(c) == IF \E i \in 1..26 : Lower[i] = c THEN Upper[CHOOSE i \in 1..26 : Lower[i] = c] ELSE c
PyUpper(s) == [i \in 1..Len(s) |-> UpperChar(s[i])]
IsAlnum(c) == c \in Letters \cup DigitSet

RECURSIVE Sanitize(_)
Sanitize(s) ==
    IF s = <<>> THEN <<>>
    ELSE IF IsAlnum(Head(s)) THEN <<Head(s)>> \o Sanitize(Tail(s))
    ELSE Sanitize(Tail(s))

RELATES == <<"R", "E", "L", "A", "T", "E", "S">>

\* rel.get("type", "RELATES").upper(), then the characters that are alphanumeric
RelType(rel) == Sanitize(PyUpper(Get(rel, "type", RELATES)))

\* Cypher takes [r:NAME] only for a name that is not empty and starts with no digit
CypherAccepts(label) == label # <<>> /\ label[1] \notin DigitSet

\* create_relationship: KeyError without fromId/toId, a syntax error from the
\* database on a label Cypher rejects, TypeError on rec["r"] when the MATCH finds
\* no pair of notes (single() is None); otherwise MERGE the edge and SET its label
create_relationship(ns, rs, rel) ==
    LET rel_type == RelType(rel) IN
    IF ~Has(rel, "fromId") \/ ~Has(rel, "toId")
    THEN [ok |-> FALSE, rels |-> rs, label |-> rel_type, queried |-> FALSE, edge |-> NoEdge]
    ELSE IF ~CypherAccepts(rel_type)
    THEN [ok |-> FALSE, rels |-> rs, label |-> rel_type, queried |-> TRUE, edge |-> NoEdge]
    ELSE IF ~(\E a \in ns : a.id = rel.fromId) \/ ~(\E b \in ns : b.id = rel.toId)
    THEN [ok |-> FALSE, rels |-> rs, label |-> rel_type, queried |-> TRUE, edge |-> NoEdge]
    ELSE LET e == [fromId |-> rel.fromId, toId |-> rel.toId, type |-> rel_type,
                   label |-> Get(rel, "label", "")]
         IN  [ok |-> TRUE,
              rels |-> {r \in rs : ~(r.fromId = e.fromId /\ r.toId = e.toId /\ r.type = e.type)}
                           \cup {e},
              label |-> rel_type, queried |-> TRUE, edge |-> e]

\* a note is made when none has the id
update_note_position_merge(ns, id, x, y) ==
    IF \E n \in ns : n.id = id
    THEN {IF n.id = id THEN [n EXCEPT !.x = x, !.y = y] ELSE n : n \in ns}
    ELSE ns \cup {[NoNode EXCEPT !.id = id, !.x = x, !.y = y]}

\* MATCH (n:Note {id: $id}) SET n.x = $x, n.y = $y
update_note_position(ns, id, x, y) ==
    {IF n.id = id THEN [n EXCEPT !.x = x, !.y = y] ELSE n : n \in ns}

----------------------------------------------------------------------------
(* main.py: the request handlers *)

\* the relationships are written before the notes
WriteOrderRelsFirst(ns, rs) ==
    [i \in 1..Len(rs) |-> [op |-> "create_relationship", arg |-> rs[i]]]
        \o [i \in 1..Len(ns) |-> [op |-> "create_note", arg |-> ns[i]]]

\* for note in notes: create_note(note); for rel in relationships: create_relationship(rel)
WriteOrder(ns, rs) ==
    [i \in 1..Len(ns) |-> [op |-> "create_note", arg |-> ns[i]]]
        \o [i \in 1..Len(rs) |-> [op |-> "create_relationship", arg |-> rs[i]]]

\* the note and relationship records an LLM answer can carry
NoteRecords ==
    { [id |-> "a", title |-> "T1", content |-> "C1"],
      [id |-> "a", title |-> "T2", content |-> "C1", color |-> "#fff", x |-> 5, y |-> 7,
       timestamp |-> 7],
      [title |-> "T1", content |-> "C1"],
      [nondict |-> "1"] }
RelRecords ==
    { [fromId |-> "a", toId |-> "a", type |-> <<"i", "s", "-", "a">>, label |-> "L1"],
      [fromId |-> "a", toId |-> "a"],
      [fromId |-> "a", toId |-> "a", type |-> <<"-", "-">>, label |-> "L1"],
      [fromId |-> "a", toId |-> "b", type |-> <<"i", "s", "-", "a">>],
      [toId |-> "a", type |-> <<"i", "s", "-", "a">>] }
PositionUpdates ==
    { [kind |-> "update_position", id |-> "a", x |-> 5, y |-> 7],
      [kind |-> "update_position", id |-> "zz", x |-> 5, y |-> 7] }
UuidPool == {"u1", "u2"}
\* what datetime.utcnow() can answer (a wall clock: not monotonic)
Instants == {1, 2}

SeqsUpTo(S, n) == UNION {[1..k -> S] : k \in 0..n}
FreshUuids == UuidPool \ {n.id : n \in notes}
NoRequest == [kind |-> "none"]

\* POST /generate, generate_notes_and_relationships having returned the payload
\* (a payload that needs more fresh uuids than the pool has left is not drawn)
GenerateStart ==
    /\ pc = "idle"
    /\ \E ns \in SeqsUpTo(NoteRecords, MaxWrites), rs \in SeqsUpTo(RelRecords, MaxWrites) :
         /\ Len(ns) + Len(rs) <= MaxWrites
         /\ Cardinality({i \in 1..Len(ns) : IsDict(ns[i]) /\ NeedsUuid(ns[i])})
                <= Cardinality(FreshUuids)
         /\ req' = [kind |-> "generate", notes |-> ns, rels |-> rs, i |-> 1]
    /\ pc' = "generate"
    /\ UNCHANGED <<notes, rels, log, response>>
    /\ UNCHANGED textVars

\* POST /generate, generate_notes_and_relationships raising
GenerateLLMError ==
    /\ pc = "idle"
    /\ req' = [kind |-> "generate_failed"]
    /\ response' = "LLM error"
    /\ pc' = "done"
    /\ UNCHANGED <<notes, rels, log>>
    /\ UNCHANGED textVars

\* after a write: the next one, or out of the try block with "DB write error"
AfterWrite(ok) ==
    /\ req' = [req EXCEPT !.i = @ + 1]
    /\ pc' = IF ok THEN "generate" ELSE "done"
    /\ response' = IF ok THEN "none" ELSE "DB write error"

\* one turn of the first loop: neo4j_service.create_note(note)
GenerateWriteNote ==
    /\ pc = "generate"
    /\ req.i <= Len(WriteOrder(req.notes, req.rels))
    /\ LET w == WriteOrder(req.notes, req.rels)[req.i] IN
       /\ w.op = "create_note"
       /\ \E uuid \in (IF IsDict(w.arg) /\ NeedsUuid(w.arg) THEN FreshUuids ELSE {"u0"}),
             now \in (IF IsDict(w.arg) /\ NeedsNow(w.arg) THEN Instants ELSE {0}) :
            LET c == create_note(notes, w.arg, uuid, now) IN
            /\ notes' = c.notes
            /\ log' = Append(log, [op |-> w.op, arg |-> w.arg, ok |-> c.ok, queried |-> c.ok,
                                   label |-> <<>>, node |-> c.node, edge |-> NoEdge])
            /\ AfterWrite(c.ok)
    /\ UNCHANGED rels
    /\ UNCHANGED textVars

\* one turn of the second loop: neo4j_service.create_relationship(rel)
GenerateWriteRel ==
    /\ pc = "generate"
    /\ req.i <= Len(WriteOrder(req.notes, req.rels))
    /\ LET w == WriteOrder(req.notes, req.rels)[req.i] IN
       /\ w.op = "create_relationship"
       /\ LET c == create_relationship(notes, rels, w.arg) IN
          /\ rels' = c.rels
          /\ log' = Append(log, [op |-> w.op, arg |-> w.arg, ok |-> c.ok, queried |-> c.queried,
                                 label |-> c.label, node |-> NoNode, edge |-> c.edge])
          /\ AfterWrite(c.ok)
    /\ UNCHANGED notes
    /\ UNCHANGED textVars

\* both loops done: return neo4j_service.get_all_notes_and_relationships()
GenerateReturn ==
    /\ pc = "generate"
    /\ req.i > Len(WriteOrder(req.notes, req.rels))
    /\ pc' = "done"
    /\ response' = "graph"
    /\ UNCHANGED <<notes, rels, req, log>>
    /\ UNCHANGED textVars

\* GET /notes
GetNotes ==
    /\ pc = "idle"
    /\ req' = [kind |-> "get_notes"]
    /\ response' = "graph"
    /\ pc' = "done"
    /\ UNCHANGED <<notes, rels, log>>
    /\ UNCHANGED textVars

\* POST /update-position: the PositionUpdate body arrives
UpdatePositionStart ==
    /\ pc = "idle"
    /\ \E pos \in PositionUpdates : req' = pos
    /\ pc' = "update_position"
    /\ UNCHANGED <<notes, rels, log, response>>
    /\ UNCHANGED textVars

\* neo4j_service.update_note_position(pos.id, pos.x, pos.y); return {"ok": True}
UpdatePosition ==
    /\ pc = "update_position"
    /\ notes' = update_note_position(notes, req.id, req.x, req.y)
    /\ response' = "ok"
    /\ pc' = "done"
    /\ UNCHANGED <<rels, req, log>>
    /\ UNCHANGED textVars

\* POST /clear: MATCH (n) DETACH DELETE n
Clear ==
    /\ pc = "idle"
    /\ notes' = {}
    /\ rels' = {}
    /\ req' = [kind |-> "clear"]
    /\ response' = "ok"
    /\ pc' = "done"
    /\ UNCHANGED log
    /\ UNCHANGED textVars

\* the answer is sent and the request's own state is gone
Respond ==
    /\ pc = "done"
    /\ pc' = "idle"
    /\ req' = NoRequest
    /\ log' = <<>>
    /\ response' = "none"
    /\ UNCHANGED <<notes, rels>>
    /\ UNCHANGED textVars

StoreNext ==
    \/ GenerateStart
    \/ GenerateLLMError
    \/ GenerateWriteNote
    \/ GenerateWriteRel
    \/ GenerateReturn
    \/ GetNotes
    \/ UpdatePositionStart
    \/ UpdatePosition
    \/ Clear
    \/ Respond

StoreSpecInit ==
    /\ pc = "idle"
    /\ req = NoRequest
    /\ notes = {}
    /\ rels = {}
    /\ log = <<>>
    /\ response = "none"
    /\ text = <<>>
    /\ origin = NoOrigin
    /\ result = Idle
    /\ graph = NoGraph

StoreSpec == StoreSpecInit /\ [][StoreNext]_vars

----------------------------------------------------------------------------
(* Spec: the extractor and the orchestrator applied to a text *)

Init ==
    /\ pc = "input"
    /\ result = Idle
    /\ graph = NoGraph
    /\ notes = {}
    /\ rels = {}
    /\ req = NoRequest
    /\ log = <<>>
    /\ response = "none"
    /\ \/ /\ text \in Strings
          /\ origin = NoOrigin
       \/ \E p \in Prefixes, val \in Values, sfx \in Suffixes :
            /\ text = p \o json_dumps(val) \o sfx
            /\ origin = [kind |-> "wrapped", prefix |-> p, value |-> val, suffix |-> sfx]
       \/ \E val \in Containers : \E k \in 1..(Len(json_dumps(val)) - 1) :
            /\ text = SubSeq(json_dumps(val), 1, k)
            /\ origin = [kind |-> "truncated", prefix |-> <<>>, value |-> val, suffix |-> <<>>]

\* extract_json_from_text(text)
Extract ==
    /\ pc = "input"
    /\ result' = extract_json_from_text(text)
    /\ pc' = "extracted"
    /\ UNCHANGED <<text, origin, graph>>
    /\ UNCHANGED storeVars

\* generate_notes_and_relationships(description), call_gemini answering text
Generate ==
    /\ pc = "input"
    /\ graph' = generate_notes_and_relationships(text)
    /\ pc' = "generated"
    /\ UNCHANGED <<text, origin, result>>
    /\ UNCHANGED storeVars

Next == Extract \/ Generate

Spec == Init /\ [][Next]_vars

----------------------------------------------------------------------------
(* Properties of the store and of the handlers *)

UpperAlnum == {Upper[i] : i \in 1..26} \cup DigitSet

\* C6: the edge label create_relationship puts in its query is never empty and
\* has only uppercase alphanumeric characters: the type upper-cased and stripped
\* of every other character, and RELATES whenever that leaves nothing.
C6_LabelSanitizedWithFallback ==
    \A i \in 1..Len(log) :
        (log[i].op = "create_relationship" /\ log[i].queried) =>
            LET given == IF Has(log[i].arg, "type") THEN log[i].arg.type ELSE <<>>
                kept == Sanitize(PyUpper(given))
            IN  /\ log[i].label # <<>>
                /\ \A k \in 1..Len(log[i].label) : log[i].label[k] \in UpperAlnum
                /\ log[i].label = IF kept = <<>> THEN RELATES ELSE kept

\* the step that applies create_note a second time in a row to the same record
SecondCreateNote ==
    /\ Len(log) >= 1
    /\ Len(log') = Len(log) + 1
    /\ log[Len(log)].op = "create_note"
    /\ log[Len(log)].ok
    /\ log'[Len(log')].op = "create_note"
    /\ log'[Len(log')].ok
    /\ log'[Len(log')].arg = log[Len(log)].arg

SameButTimestamp(n, m) ==
    /\ n.id = m.id
    /\ n.title = m.title
    /\ n.content = m.content
    /\ n.color = m.color
    /\ n.x = m.x
    /\ n.y = m.y

\* C8 as stated: for every note record, applying create_note twice in a row
\* leaves the same set of notes (ids and field values) as applying it once.
C8_CreateNoteIdempotent == [][SecondCreateNote => notes' = notes]_vars

\* C8 amended: for a record that carries an id, the second application adds no
\* note and changes no id, title, content, color, x or y; the timestamp stays
\* too when the record carries one.
C8_CreateNoteUpsertsById ==
    [][(SecondCreateNote /\ ~NeedsUuid(log[Len(log)].arg)) =>
          /\ Cardinality(notes') = Cardinality(notes)
          /\ \A n \in notes : \E m \in notes' : SameButTimestamp(n, m)
          /\ \A n \in notes : n.id # log[Len(log)].arg.id => n \in notes'
          /\ ~NeedsNow(log[Len(log)].arg) => notes' = notes]_vars

\* a record with an id and no timestamp has been written twice in a row, at two
\* instants, beside another note
C8_Witness ==
    /\ Len(log) >= 2
    /\ log[1].op = "create_note" /\ log[1].ok
    /\ log[2].op = "create_note" /\ log[2].ok
    /\ log[1].arg = log[2].arg
    /\ ~NeedsUuid(log[1].arg)
    /\ NeedsNow(log[1].arg)
    /\ log[1].node.timestamp # log[2].node.timestamp
    /\ Cardinality(notes) >= 2

\* C9: a /generate request writes its notes in order, then its relationships
\* in order; the first failing write ends it with "DB write error", nothing is
\* written after it, and what was written before it is in the store.
C9_WritesInOrderStopAtFailure ==
    (Has(req, "kind") /\ req.kind = "generate") =>
        LET nn == Len(req.notes)
            last == Len(log)
        IN  /\ last <= nn + Len(req.rels)
            /\ req.i = last + 1
            /\ \A i \in 1..last :
                  IF i <= nn
                  THEN log[i].op = "create_note" /\ log[i].arg = req.notes[i]
                  ELSE log[i].op = "create_relationship" /\ log[i].arg = req.rels[i - nn]
            /\ \A i \in 1..(last - 1) : log[i].ok
            /\ response = "DB write error" <=> (last >= 1 /\ ~log[last].ok)
            /\ response = "DB write error" => pc = "done"
            /\ response = "graph" => (last = nn + Len(req.rels) /\ \A i \in 1..last : log[i].ok)
            /\ \A i \in 1..last :
                  (log[i].ok /\ log[i].op = "create_note"
                     /\ ~\E j \in (i + 1)..last : log[j].ok /\ log[j].node.id = log[i].node.id)
                  => log[i].node \in notes
            /\ \A i \in 1..last :
                  (log[i].ok /\ log[i].op = "create_relationship"
                     /\ ~\E j \in (i + 1)..last :
                            /\ log[j].ok
                            /\ log[j].edge.fromId = log[i].edge.fromId
                            /\ log[j].edge.toId = log[i].edge.toId
                            /\ log[j].edge.type = log[i].edge.type)
                  => log[i].edge \in rels

\* a request ended by a failing relationship after a note was written, with a
\* write left that is never made
C9_Witness ==
    /\ pc = "done"
    /\ Has(req, "kind") /\ req.kind = "generate"
    /\ response = "DB write error"
    /\ Len(log) = 2
    /\ log[1].op = "create_note"
    /\ log[1].node \in notes
    /\ log[2].op = "create_relationship"
    /\ Len(req.notes) + Len(req.rels) > 2

\* C10: update_note_position changes only x and y of the note with the id,
\* leaves every other note, field and relationship alone, makes no note when
\* none has the id, and /update-position answers ok.
C10_UpdatePositionFrame ==
    [][(pc = "update_position" /\ pc' = "done") =>
          /\ rels' = rels
          /\ response' = "ok"
          /\ Cardinality(notes') = Cardinality(notes)
          /\ \A n \in notes : n.id # req.id => n \in notes'
          /\ \A n \in notes : n.id = req.id => [n EXCEPT !.x = req.x, !.y = req.y] \in notes'
          /\ (~\E n \in notes : n.id = req.id) => notes' = notes]_vars

\* a note has been moved while another note and a relationship are stored
C10_Witness ==
    /\ pc = "done"
    /\ Has(req, "id")
    /\ response = "ok"
    /\ \E n \in notes : n.id = req.id /\ n.x = req.x /\ n.y = req.y /\ n.title = "T1"
    /\ \E n \in notes : n.id # req.id /\ n.x = DefaultX
    /\ rels # {}

----------------------------------------------------------------------------
(* Properties of the extractor *)

Extracted == pc = "extracted"
Trimmed == strip(text)
Brackets == {i \in 1..Len(Trimmed) : Trimmed[i] = "{" \/ Trimmed[i] = "["}
FirstBracket == CHOOSE i \in Brackets : \A j \in Brackets : i <= j
\* the ends e for which the slice from the first bracket to e parses
ParsingEnds ==
    {e \in FirstBracket..Len(Trimmed) : json_loads(SubSeq(Trimmed, FirstBracket, e)).ok}
LongestEnd == CHOOSE e \in ParsingEnds : \A f \in ParsingEnds : f <= e
\* the balanced {...} substrings of the text that parse, by their place in the scan
Balanced == BalancedFrom(Trimmed, 1)
ParsingBalanced == {i \in 1..Len(Balanced) : json_loads(Balanced[i]).ok}
FirstParsingBalanced == CHOOSE i \in ParsingBalanced : \A j \in ParsingBalanced : i <= j
IsNoJsonFound(r) == r.kind = "ValueError" /\ r.msg = "No JSON object found in text."
IsUnparsable(r) == r.kind = "ValueError" /\ r.msg = "Could not extract JSON from text."

\* C1: a text with a "{" or "[" in which no candidate parses (no slice from the
\* first bracket, no balanced {...} substring) fails with the ValueError
\* "Could not extract JSON from text.", and with no other kind of failure.
C1_UnparsableIsTyped ==
    (Extracted /\ Brackets # {} /\ ParsingEnds = {} /\ ParsingBalanced = {})
        => IsUnparsable(result)

\* C2: extraction fails with "No JSON object found in text." exactly when the
\* trimmed text has no "{" and no "[", and then no parse has been attempted.
C2_NoJsonFoundIff ==
    Extracted =>
        /\ IsNoJsonFound(result) <=> (\A i \in 1..Len(Trimmed) : Trimmed[i] \notin {"{", "["})
        /\ IsNoJsonFound(result) => result.tried = 0
        /\ ~IsNoJsonFound(result) => result.tried > 0

C2_Witness ==
    /\ Extracted
    /\ IsNoJsonFound(result)
    /\ \E i \in 1..Len(text) : text[i] = "a"

WrappedOk ==
    /\ Extracted
    /\ origin.kind = "wrapped"
    /\ \A i \in 1..Len(origin.prefix) : origin.prefix[i] \notin {"{", "["}
    /\ LET enc == json_dumps(origin.value)
           rest == enc \o origin.suffix
       IN  \A k \in (Len(enc) + 1)..Len(rest) :
               json_loads(SubSeq(rest, 1, k)).ok
                   => json_loads(SubSeq(rest, 1, k)).val = origin.value

\* C4 as stated: for any JSON value V, extract(prefix + jsonEncode(V) + suffix)
\* returns V when the prefix has no bracket and no longer parse starts where
\* jsonEncode(V) starts.
C4_RoundTripAnyValue ==
    WrappedOk => (result.kind = "return" /\ result.value = origin.value)

\* C4 amended: the round trip holds for every JSON object or array V.
C4_RoundTripContainers ==
    (WrappedOk /\ origin.value.t \in {"obj", "arr"})
        => (result.kind = "return" /\ result.value = origin.value)

C4_Witness ==
    /\ WrappedOk
    /\ origin.value.t = "obj"
    /\ origin.value.m # {}
    /\ origin.prefix # <<>>
    /\ origin.suffix # <<>>
    /\ result.value = origin.value

\* C5: when no slice from the first bracket parses, the balanced {...}
\* substrings of the text are tried in the order found and the first that
\* parses is returned.
C5_FallbackReturnsFirstBalanced ==
    (Extracted /\ Brackets # {} /\ ParsingEnds = {} /\ ParsingBalanced # {}) =>
        /\ result.kind = "return"
        /\ result.value = json_loads(Balanced[FirstParsingBalanced]).val

\* C7: generate_notes_and_relationships returns the recovered value unchanged
\* exactly when it is a mapping with both keys "notes" and "relationships";
\* any other recovered value fails with the schema error, and a failed
\* extraction fails with an error and returns nothing.
C7_SchemaCheck ==
    pc = "generated" =>
        LET e == extract_json_from_text(text)
            graphShaped ==
                /\ e.kind = "return"
                /\ e.value.t = "obj"
                /\ \E p \in e.value.m : p[1] = K_notes
                /\ \E p \in e.value.m : p[1] = K_relationships
        IN  /\ graph.kind = "return" <=> graphShaped
            /\ graph.kind = "return" => graph.value = e.value
            /\ (e.kind = "return" /\ ~graphShaped)
                   => (graph.kind = "ValueError" /\ graph.msg = "LLM JSON missing required keys")
            /\ e.kind # "return"
                   => (graph.kind = "ValueError" /\ graph.msg = "LLM did not return parseable JSON.")

C7_Witness ==
    /\ pc = "generated"
    /\ graph.kind = "return"
    /\ origin.kind = "wrapped"
    /\ origin.prefix # <<>>
    /\ origin.suffix # <<>>
    /\ \E p \in graph.value.m : p[1] = K_notes /\ p[2].a # <<>>

====
